---- MODULE Spec2Model ----
(***************************************************************************)
(* Playback controller and marker animator of src/src/App.jsx.             *)
(*                                                                         *)
(* App keeps routeData, currentIndex and isPlaying as React state; the     *)
(* simulation effect owns the 2000 ms interval; AnimatedMarker owns the    *)
(* requestAnimationFrame loops that move the Leaflet marker.               *)
(*                                                                         *)
(* Coordinates are abstracted to a small integer grid, the clock to        *)
(* multiples of 1000 ms.  A React state update made by a click handler is  *)
(* rendered and its effects run before the next event (React 18 discrete   *)
(* events).  Spec treats the interval callback the same way; SpecDrift     *)
(* lets the callback's update wait for a later render, during which the    *)
(* old interval is still registered and can fire again.                    *)
(***************************************************************************)
EXTENDS Integers, Sequences, FiniteSets, TLC

VARIABLES
    isLoading,        \* useState(true), line 120
    routeData,        \* useState([]), line 117: sequence of [lat,lng] pairs
    currentIndex,     \* useState(0), line 118 (latest state)
    isPlaying,        \* useState(false), line 119 (latest state)
    deps,             \* <<isPlaying, currentIndex, routeData>> of the last render (line 186)
    intervals,        \* number of registered, uncleared setInterval timers
    intervalRef,      \* intervalRef.current: "null", "live" or "cleared" (line 122)
    prevPositionRef,  \* AnimatedMarker's prevPositionRef.current (line 70)
    markerPos,        \* the Leaflet marker's displayed lat/lng
    loops,            \* pending requestAnimationFrame loops, in registration order
    lastOp,           \* history: the last event handled
    shownIndex,       \* the index the displayed speed/elapsed/progress were computed for
    targetIndex,      \* the index whose waypoint AnimatedMarker was last given
    run,              \* history: ticks since play() from index 0, -1 when interrupted
    calcSeq,          \* calculator input: waypoints [lat, lng, timestamp] (lines 147-151)
    calcIndex,        \* calculator input: the index asked about
    calcSpeed         \* calculator output: what calculateSpeedKmH returned

vars == <<isLoading, routeData, currentIndex, isPlaying, deps, intervals,
          intervalRef, prevPositionRef, markerPos, loops, shownIndex,
          targetIndex, lastOp, run, calcSeq, calcIndex, calcSpeed>>

playbackVars == <<isLoading, routeData, currentIndex, isPlaying, deps, intervals,
                  intervalRef, prevPositionRef, markerPos, loops, shownIndex,
                  targetIndex, lastOp, run>>

calcVars == <<calcSeq, calcIndex, calcSpeed>>

\* ---------------------------------------------------------------- bounds
MaxLen == 3
MaxLoops == 2
MaxSeq == 2

\* ------------------------------------------------------------- constants
duration == 2000

INITIAL_CENTER == <<0, 0>>

\* Waypoint coordinates: three points that pairwise differ in lat, lng or both.
Pos == {<<0, 0>>, <<2, 0>>, <<0, 2>>}

NoPos == <<-1, -1>>

\* Time between two animation frames, in ms (the last one overshoots duration).
FrameGaps == {1000, 2000, 3000}

\* The routes the fetch can deliver, up to a renaming of the three points: the
\* program uses a point only in the equality test of line 79 and as an end of
\* an interpolation, so a route is taken with its points in the order
\* <<0, 0>>, <<2, 0>>, <<0, 2>> of first appearance.
FirstAppearanceOrder(route) ==
    /\ Len(route) > 0 => route[1] = <<0, 0>>
    /\ \A i \in DOMAIN route :
          route[i] = <<0, 2>> => \E j \in 1..(i - 1) : route[j] = <<2, 0>>

Routes == {route \in UNION {[1..n -> Pos] : n \in 0..MaxLen} :
              FirstAppearanceOrder(route)}

Min(a, b) == IF a < b THEN a ELSE b

\* ------------------------------------------------------------ pure parts

\* currentPosition, lines 207-211, as the [lat, lng] handed to AnimatedMarker (286)
Position(idx, route) ==
    IF idx + 1 \in DOMAIN route THEN route[idx + 1]
    ELSE IF Len(route) > 0 THEN route[1]
    ELSE INITIAL_CENTER

\* the updater passed to setCurrentIndex by the interval callback, lines 169-176
TickUpdaterNoClamp(prevIndex, len) ==
    [index |-> prevIndex + 1, stop |-> FALSE]

TickUpdaterSkip(prevIndex, len) ==
    IF prevIndex >= len - 1
    THEN [index |-> prevIndex, stop |-> TRUE]
    ELSE [index |-> prevIndex + 2, stop |-> FALSE]

TickUpdaterWrap(prevIndex, len) ==
    [index |-> IF len > 0 THEN (prevIndex + 1) % len ELSE 0, stop |-> FALSE]

TickUpdater(prevIndex, len) ==
    IF prevIndex >= len - 1
    THEN [index |-> prevIndex, stop |-> TRUE]
    ELSE [index |-> prevIndex + 1, stop |-> FALSE]

\* the condition under which the simulation effect registers an interval, line 167
StartsIntervalAlways(playing, idx, route) == playing /\ Len(route) > 0

StartsInterval(playing, idx, route) ==
    playing /\ Len(route) > 0 /\ idx < Len(route) - 1

\* the snap test of the animator effect, line 79
SamePosition(a, b) == a = NoPos \/ (a[1] = b[1] /\ a[2] = b[2])

\* linear interpolation, lines 87-92; coordinates are even, elapsed a multiple of 1000
Interpolate(from, to, elapsed) ==
    LET e == Min(elapsed, duration)
    IN  <<from[1] + ((to[1] - from[1]) * e) \div duration,
          from[2] + ((to[2] - from[2]) * e) \div duration>>

\* the command a call of togglePlay amounts to, by the branch it takes (191-197)
Command(playing, idx, route) ==
    IF idx >= Len(route) - 1 THEN "replay"
    ELSE IF playing THEN "pause" ELSE "play"

\* ------------------------------------------------------- effects of a render

\* cleanup of the simulation effect, lines 181-185
CleanupKeepsInterval(n, ref) == [n |-> n, ref |-> ref]

Cleanup(n, ref) ==
    IF ref = "live" THEN [n |-> n - 1, ref |-> "cleared"]
    ELSE [n |-> n, ref |-> ref]

\* body of the simulation effect, lines 167-178
SimulationEffect(t, playing, idx, route) ==
    IF StartsInterval(playing, idx, route)
    THEN [n |-> t.n + 1, ref |-> "live"]
    ELSE t

\* the handle requestAnimationFrame returns for a new loop (line 104): one that
\* no pending loop holds
FreshId(ls) ==
    CHOOSE k \in 1..(Len(ls) + 1) : \A i \in DOMAIN ls : ls[i].id # k

\* body of the AnimatedMarker effect, lines 72-108: the new ref value and loops
AnimatorEffectNoSnap(prev, position, ls) ==
    [prev |-> prev,
     loops |-> Append(ls, [from |-> prev, to |-> position, el |-> 0,
                           id |-> FreshId(ls)])]

AnimatorEffect(prev, position, ls) ==
    IF SamePosition(prev, position)
    THEN [prev |-> position, loops |-> ls]
    ELSE [prev |-> prev,
          loops |-> Append(ls, [from |-> prev, to |-> position, el |-> 0,
                                id |-> FreshId(ls)])]

\* progressPercentage, lines 217-219, as the exact fraction num/den (in percent)
ProgressPercentageFromZero(idx, n) ==
    IF n > 0 THEN [num |-> idx * 100, den |-> n] ELSE [num |-> 0, den |-> 1]

ProgressPercentage(idx, n) ==
    IF n > 0 THEN [num |-> (idx + 1) * 100, den |-> n] ELSE [num |-> 0, den |-> 1]

\* the index the metric calls of a render are keyed on: the render's own
\* currentIndex (lines 207, 217-218, 329, 337, 346)
MetricsIndexStale(idx) == deps[2]

MetricsIndex(idx) == idx

\* A render of App after load with state (playing, idx, route): Marker gets its
\* position prop (line 111), the animator effect runs (its position dep is a
\* fresh array each render, line 286), and the simulation effect is cleaned up
\* and re-run when one of its deps changed (line 186).
Render(playing, idx, route) ==
    LET position == Position(idx, route)
        prev     == IF prevPositionRef = NoPos THEN position ELSE prevPositionRef
        anim     == AnimatorEffect(prev, position, loops)
        changed  == <<playing, idx, route>> # deps
        timer    == IF changed
                    THEN SimulationEffect(Cleanup(intervals, intervalRef),
                                          playing, idx, route)
                    ELSE [n |-> intervals, ref |-> intervalRef]
    IN  /\ Len(anim.loops) <= MaxLoops
        /\ markerPos' = position
        /\ prevPositionRef' = anim.prev
        /\ loops' = anim.loops
        /\ intervals' = timer.n
        /\ intervalRef' = timer.ref
        /\ deps' = <<playing, idx, route>>
        /\ shownIndex' = MetricsIndex(idx)
        /\ targetIndex' = idx

\* ------------------------------------------------------------------ Init
InitPlayback ==
    /\ isLoading = TRUE
    /\ routeData = <<>>
    /\ currentIndex = 0
    /\ isPlaying = FALSE
    /\ deps = <<FALSE, 0, <<>>>>
    /\ intervals = 0
    /\ intervalRef = "null"
    /\ prevPositionRef = NoPos
    /\ markerPos = NoPos
    /\ loops = <<>>
    /\ shownIndex = -1
    /\ targetIndex = -1
    /\ lastOp = "init"
    /\ run = -1

\* the calculator has not been asked anything
NoResult == [kind |-> "none", hundredths |-> 0]

Init ==
    /\ InitPlayback
    /\ calcSeq = <<>>
    /\ calcIndex = 0
    /\ calcSpeed = NoResult

\* --------------------------------------------------------------- actions

\* loadRouteData, lines 142-159: the fetch succeeds with some route or fails
Load ==
    /\ isLoading
    /\ \E route \in Routes :
        /\ routeData' = route
        /\ isLoading' = FALSE
        /\ UNCHANGED <<currentIndex, isPlaying>>
        /\ Render(isPlaying, currentIndex, route)
    /\ lastOp' = "load"
    /\ UNCHANGED run
    /\ UNCHANGED calcVars

\* togglePlay, lines 190-198: the state it sets, from the handler's closure values
\* (playing, idx, len) and the latest index
TogglePlayUpdateNoRestart(playing, idx, len, latestIdx) ==
    [index |-> latestIdx, playing |-> ~playing]

TogglePlayUpdateFromStart(playing, idx, len, latestIdx) ==
    IF idx >= len - 1
    THEN [index |-> 0, playing |-> TRUE]
    ELSE [index |-> IF playing THEN latestIdx ELSE 0, playing |-> ~playing]

TogglePlayUpdate(playing, idx, len, latestIdx) ==
    IF idx >= len - 1
    THEN [index |-> 0, playing |-> TRUE]
    ELSE [index |-> latestIdx, playing |-> ~playing]

\* the disabled attribute of both control buttons, lines 366 and 377
ButtonsNeverDisabled(route) == FALSE

ButtonsDisabled(route) == Len(route) = 0

\* a click of the play/pause button, lines 364-374 (disabled on an empty route)
TogglePlay ==
    /\ ~isLoading
    /\ ~ButtonsDisabled(deps[3])
    /\ LET u == TogglePlayUpdate(deps[1], deps[2], Len(deps[3]), currentIndex)
       IN  /\ currentIndex' = u.index
           /\ isPlaying' = u.playing
           /\ lastOp' = Command(deps[1], deps[2], deps[3])
           /\ run' = IF ~deps[1] /\ deps[2] < Len(deps[3]) - 1 /\ currentIndex = 0
                     THEN 0 ELSE -1
           /\ IF <<u.playing, u.index>> = <<isPlaying, currentIndex>>
                 /\ deps = <<isPlaying, currentIndex, routeData>>
              THEN UNCHANGED <<deps, intervals, intervalRef, prevPositionRef,
                               markerPos, loops, shownIndex, targetIndex>>
              ELSE Render(u.playing, u.index, routeData)
    /\ UNCHANGED <<isLoading, routeData>>
    /\ UNCHANGED calcVars

\* resetSimulation, lines 200-203, on a click of the reset button (375-381)
ResetSimulation ==
    /\ ~isLoading
    /\ ~ButtonsDisabled(deps[3])
    /\ currentIndex' = 0
    /\ isPlaying' = FALSE
    /\ lastOp' = "reset"
    /\ run' = -1
    /\ IF <<FALSE, 0>> = <<isPlaying, currentIndex>>
          /\ deps = <<isPlaying, currentIndex, routeData>>
       THEN UNCHANGED <<deps, intervals, intervalRef, prevPositionRef,
                        markerPos, loops, shownIndex, targetIndex>>
       ELSE Render(FALSE, 0, routeData)
    /\ UNCHANGED <<isLoading, routeData>>
    /\ UNCHANGED calcVars

\* a click of a control button while it is disabled (lines 366, 377): the
\* browser delivers no click event, neither handler runs
ClickDisabled ==
    /\ ~isLoading
    /\ ButtonsDisabled(deps[3])
    /\ lastOp' = "disabled"
    /\ UNCHANGED calcVars
    /\ UNCHANGED <<isLoading, routeData, currentIndex, isPlaying, deps, intervals,
                   intervalRef, prevPositionRef, markerPos, loops, shownIndex,
                   targetIndex, run>>

\* the state update made by one interval callback, lines 168-177; the
\* callback's closure holds the routeData of the render that registered it
TimerUpdate ==
    LET u == TickUpdater(currentIndex, Len(deps[3]))
    IN  /\ currentIndex' = u.index
        /\ isPlaying' = IF u.stop THEN FALSE ELSE isPlaying
        /\ lastOp' = "tick"
        /\ run' = IF run >= 0 THEN Min(run + 1, MaxLen + 1) ELSE -1
        /\ UNCHANGED <<isLoading, routeData>>

\* an interval callback followed by React's render of its update
Tick ==
    /\ intervals > 0
    /\ TimerUpdate
    /\ Render(isPlaying', currentIndex', routeData)
    /\ UNCHANGED calcVars

\* an interval callback whose update is not rendered yet
TickDeferred ==
    /\ intervals > 0
    /\ TimerUpdate
    /\ UNCHANGED <<deps, intervals, intervalRef, prevPositionRef, markerPos, loops,
                   shownIndex, targetIndex>>
    /\ UNCHANGED calcVars

\* a render of App with no command: the once-per-second clock update (lines
\* 129-136), or React rendering the updates that are waiting
Rerender ==
    /\ ~isLoading
    /\ Render(isPlaying, currentIndex, routeData)
    /\ lastOp' = "render"
    /\ UNCHANGED calcVars
    /\ UNCHANGED <<isLoading, routeData, currentIndex, isPlaying, run>>

\* the test that makes animate request another frame, lines 88 and 96:
\* progress = min(1, elapsed / duration) < 1
ReschedulesAtOne(elapsed) == Min(elapsed, duration) <= duration

Reschedules(elapsed) == Min(elapsed, duration) < duration

\* One animation frame, gap ms after the last: every pending animate callback
\* runs once, in registration order (lines 86-102).
RECURSIVE RunFrame(_, _, _, _)
RunFrame(ls, gap, st, i) ==
    IF i > Len(ls) THEN st
    ELSE LET l        == ls[i]
             elapsed  == l.el + gap
             finished == ~Reschedules(elapsed)
             pos      == IF finished THEN l.to
                         ELSE Interpolate(l.from, l.to, elapsed)
         IN  RunFrame(ls, gap,
                      [marker |-> pos,
                       prev   |-> IF finished THEN l.to ELSE st.prev,
                       loops  |-> IF finished THEN st.loops
                                  ELSE Append(st.loops, [l EXCEPT !.el = elapsed])],
                      i + 1)

Frame ==
    /\ loops # <<>>
    /\ \E gap \in FrameGaps :
        LET st == RunFrame(loops, gap,
                           [marker |-> markerPos, prev |-> prevPositionRef,
                            loops |-> <<>>], 1)
        IN  /\ markerPos' = st.marker
            /\ prevPositionRef' = st.prev
            /\ loops' = st.loops
    /\ lastOp' = "frame"
    /\ UNCHANGED calcVars
    /\ UNCHANGED <<isLoading, routeData, currentIndex, isPlaying, deps,
                   intervals, intervalRef, shownIndex, targetIndex, run>>

\* ------------------------------------------------------- specifications
Next ==
    \/ Load
    \/ TogglePlay
    \/ ResetSimulation
    \/ ClickDisabled
    \/ Tick
    \/ Rerender
    \/ Frame

Spec == Init /\ [][Next]_vars

\* setInterval keeps calling back for as long as the interval is registered,
\* and the browser keeps delivering animation frames that were requested
SpecLive ==
    /\ Spec
    /\ WF_vars(Tick)
    /\ WF_vars(Frame)

NextDrift ==
    \/ Load
    \/ TogglePlay
    \/ ResetSimulation
    \/ ClickDisabled
    \/ TickDeferred
    \/ Rerender
    \/ Frame

SpecDrift == Init /\ [][NextDrift]_vars

\* ----------------------------------------------------- kinematics calculator

\* Timestamps as Date(...).getTime() gives them, in ms (line 39); whole seconds,
\* so that distance / (delta / 3600000) is computed as distance * 3600 / (delta / 1000)
Timestamps == {0, 10000, 40000}

Waypoints == [lat : {0, 2}, lng : {0, 2}, timestamp : Timestamps]

CalcSeqs == UNION {[1..n -> Waypoints] : n \in 0..MaxSeq}

Abs(x) == IF x < 0 THEN -x ELSE x

\* calculateDistanceKm, lines 8-20.  The haversine value is abstracted to a
\* grid distance in km: zero for identical points, positive otherwise.
CalculateDistanceKm(lat1, lon1, lat2, lon2) ==
    Abs(lat2 - lat1) + Abs(lon2 - lon1)

\* Number.prototype.toFixed(2), line 45: the value num/den rounded to hundredths
ToFixed2(num, den) ==
    [kind |-> "number", hundredths |-> (2 * 100 * num + den) \div (2 * den)]

ZeroSpeed == [kind |-> "number", hundredths |-> 0]

NotAvailable == [kind |-> "N/A", hundredths |-> 0]

\* what a JavaScript division by zero or by a negative delta would print
Infinite == [kind |-> "Infinity", hundredths |-> 0]

Negative(num, den) ==
    [kind |-> "number", hundredths |-> 0 - (2 * 100 * num + den) \div (2 * den)]

\* the time-delta guard of line 42, on the delta in ms
DeltaRejectedStrict(timeDeltaMs) == timeDeltaMs < 0

DeltaRejected(timeDeltaMs) == timeDeltaMs <= 0

\* calculateSpeedKmH, lines 26-46
CalculateSpeedKmH(idx, seq) ==
    IF idx = 0 \/ Len(seq) <= 1 THEN ZeroSpeed
    ELSE IF idx \notin DOMAIN seq \/ idx + 1 \notin DOMAIN seq THEN ZeroSpeed
    ELSE LET currPoint   == seq[idx + 1]
             prevPoint   == seq[idx]
             distanceKm  == CalculateDistanceKm(prevPoint.lat, prevPoint.lng,
                                                currPoint.lat, currPoint.lng)
             timeDeltaMs == currPoint.timestamp - prevPoint.timestamp
         IN  IF DeltaRejected(timeDeltaMs) THEN NotAvailable
             ELSE IF timeDeltaMs = 0
                  THEN (IF distanceKm = 0 THEN [kind |-> "NaN", hundredths |-> 0]
                        ELSE Infinite)
             ELSE IF timeDeltaMs < 0
                  THEN Negative(distanceKm * 60 * 60, (0 - timeDeltaMs) \div 1000)
             ELSE ToFixed2(distanceKm * 60 * 60, timeDeltaMs \div 1000)

\* one call of the calculator on some sequence and index
InitCalc ==
    /\ InitPlayback
    /\ calcSeq \in CalcSeqs
    /\ calcIndex \in 0..Len(calcSeq)
    /\ calcSpeed = NoResult

CalcSpeed ==
    /\ calcSpeed = NoResult
    /\ calcSpeed' = CalculateSpeedKmH(calcIndex, calcSeq)
    /\ UNCHANGED <<calcSeq, calcIndex>>
    /\ UNCHANGED playbackVars

NextCalc == CalcSpeed

SpecCalc == InitCalc /\ [][NextCalc]_vars

\* ---------------------------------------------------------------- typing
TypeOK ==
    /\ isLoading \in BOOLEAN
    /\ routeData \in Routes
    /\ currentIndex \in 0..MaxLen
    /\ isPlaying \in BOOLEAN
    /\ intervals \in 0..1
    /\ intervalRef \in {"null", "live", "cleared"}
    /\ Len(loops) <= MaxLoops

\* --------------------------------------------------------------- helpers
len == Len(routeData)

\* the waypoint the animator was last given as its target
Target == Position(deps[2], deps[3])

\* a step in which App is rendered, so that AnimatedMarker gets its position
RenderStep ==
    \/ Load
    \/ Tick
    \/ Rerender
    \/ /\ TogglePlay \/ ResetSimulation
       /\ <<isPlaying', currentIndex'>> # <<isPlaying, currentIndex>>

\* ---------------------------------------------------------------- claims

\* C1: on a non-empty route currentIndex is always a valid position,
\* 0 <= currentIndex <= len-1, whatever commands and ticks (late ones
\* included) have been handled.
C1_IndexInRange ==
    (~isLoading /\ len > 0) => (0 <= currentIndex /\ currentIndex <= len - 1)

C1_Witness ==
    /\ lastOp = "tick" /\ len >= 2 /\ currentIndex = len - 1
    /\ ~isPlaying /\ intervals = 1

\* C2 (as claimed): play() from index 0 on a route of len >= 2 followed by
\* len-1 ticks and no other command leaves currentIndex = len-1 and the
\* controller no longer Playing.
C2_PlayThroughCompletes ==
    (~isLoading /\ len >= 2 /\ run = len - 1)
        => (currentIndex = len - 1 /\ ~isPlaying)

\* C3: reset() from any state gives currentIndex = 0, status Idle (not
\* playing) and leaves no interval registered.
C3_ResetToIdle ==
    [][ResetSimulation => (currentIndex' = 0 /\ ~isPlaying' /\ intervals' = 0)]_vars

C3_Witness ==
    /\ lastOp = "reset" /\ intervalRef = "cleared" /\ loops # <<>>
    /\ currentIndex = 0 /\ ~isPlaying

\* C4 (as claimed): a reset or a superseding target change cancels the loop
\* in flight at once, so every loop still scheduled moves the marker to the
\* latest target and at most one loop is live.
C4_SupersededLoopCancelled ==
    /\ Len(loops) <= 1
    /\ \A i \in DOMAIN loops : loops[i].to = Target

\* C5 (as claimed): once no interpolation loop is left, the marker and the
\* remembered previous position are both at the latest target.
C5_SettlesOnLatestTarget ==
    (~isLoading /\ loops = <<>>)
        => (markerPos = Target /\ prevPositionRef = Target)

\* C6: at most one interval exists, and one is registered exactly while the
\* controller is Playing short of the last index: none while paused, idle or
\* at the last index, so no tick is delivered outside Playing.
C6_TickerOnlyWhilePlaying ==
    /\ intervals <= 1
    /\ intervals = 1 <=> (isPlaying /\ len > 0 /\ currentIndex < len - 1)
    /\ (intervals = 1) = (intervalRef = "live")

C6_Witness ==
    /\ lastOp = "pause" /\ ~isPlaying /\ intervals = 0
    /\ intervalRef = "cleared" /\ currentIndex > 0

\* C7: play() at currentIndex = len-1 sets currentIndex to 0 and status to
\* Playing, the interval runs again when the route has a second waypoint,
\* and the first tick after the replay moves to index 1.
C7_ReplayFromEnd ==
    [][/\ (TogglePlay /\ currentIndex = len - 1)
           => /\ currentIndex' = 0
              /\ isPlaying'
              /\ len >= 2 => intervals' = 1
       /\ (lastOp = "replay" /\ Tick) => currentIndex' = 1]_vars

C7_Witness ==
    /\ lastOp = "replay" /\ currentIndex = 0 /\ isPlaying
    /\ intervals = 1 /\ intervalRef = "live" /\ len >= 2

\* C8 (as claimed): the play/pause command invoked while Playing sets the
\* status to Paused and leaves currentIndex unchanged, at every index.
C8_PauseKeepsIndex ==
    [][(TogglePlay /\ isPlaying) => (~isPlaying' /\ currentIndex' = currentIndex)]_vars

\* C9: an interval callback delivered when currentIndex is already len-1
\* leaves currentIndex at len-1.
C9_LateTickClamps ==
    [][(TickDeferred /\ len > 0 /\ currentIndex = len - 1)
           => currentIndex' = len - 1]_vars

C9_Witness ==
    /\ lastOp = "tick" /\ len >= 2 /\ currentIndex = len - 1
    /\ ~isPlaying /\ deps[1] /\ deps[2] = len - 2

\* C10: when AnimatedMarker is rendered with a position equal to the
\* remembered previous position (or with none remembered), no animation
\* frame is requested and the marker shows the new position at once.
C10_SnapWithoutFrames ==
    [][(RenderStep
          /\ SamePosition(prevPositionRef, Position(currentIndex', routeData')))
           => /\ loops' = loops
              /\ markerPos' = Position(currentIndex', routeData')
              /\ prevPositionRef' = markerPos']_vars

C10_Witness ==
    /\ lastOp = "tick" /\ currentIndex > 0 /\ loops = <<>>
    /\ routeData[currentIndex] = routeData[currentIndex + 1]
    /\ markerPos = routeData[currentIndex + 1]

\* C11: on an empty route the play and reset commands change nothing: the
\* status stays Idle (isPlaying false), currentIndex stays 0 and no interval
\* is registered.
C11_EmptyRouteIdle ==
    (~isLoading /\ len = 0)
        => (~isPlaying /\ currentIndex = 0 /\ intervals = 0 /\ intervalRef = "null")

C11_Witness ==
    /\ lastOp = "disabled" /\ ~isLoading /\ len = 0
    /\ ~isPlaying /\ currentIndex = 0 /\ markerPos = INITIAL_CENTER

\* C12: on a sequence with at least one waypoint the speed at index 0 is
\* "0.00"; at an index i >= 1 of the sequence it is "N/A" exactly when
\* timestamp[i] <= timestamp[i-1], and otherwise a non-negative number (no
\* division by zero, no negative speed).
C12_SpeedSentinels ==
    (calcSpeed # NoResult /\ Len(calcSeq) >= 1 /\ calcIndex < Len(calcSeq))
        => /\ calcIndex = 0 => calcSpeed = ZeroSpeed
           /\ calcIndex >= 1 =>
                /\ calcSpeed = NotAvailable
                     <=> calcSeq[calcIndex + 1].timestamp <= calcSeq[calcIndex].timestamp
                /\ calcSpeed # NotAvailable
                     => (calcSpeed.kind = "number" /\ calcSpeed.hundredths >= 0)

C12_Witness ==
    /\ calcIndex = 1 /\ Len(calcSeq) = 2
    /\ calcSeq[2].timestamp = calcSeq[1].timestamp
    /\ calcSeq[2].lat # calcSeq[1].lat
    /\ calcSpeed = NotAvailable

\* C13: every render recomputes the metrics and retargets the animator from
\* the same index, the current one: in no state after load are the displayed
\* metrics those of an index other than the one whose waypoint is the
\* animator's latest target.
C13_MetricsAndTargetSameIndex ==
    ~isLoading
        => /\ shownIndex = targetIndex
           /\ targetIndex = currentIndex
           /\ Target = Position(targetIndex, routeData)

C13_Witness ==
    /\ lastOp = "tick" /\ currentIndex = 2
    /\ shownIndex = 2 /\ targetIndex = 2 /\ loops # <<>>

\* C14: in every state the progress (currentIndex+1)/length lies in [0,1]
\* (0 to 100 percent); it is 1 exactly when currentIndex = len-1 on a
\* non-empty route, and 0 on an empty route.
C14_ProgressInUnitRange ==
    LET p == ProgressPercentage(currentIndex, len)
    IN  /\ p.den > 0
        /\ 0 <= p.num /\ p.num <= 100 * p.den
        /\ p.num = 100 * p.den <=> (len > 0 /\ currentIndex = len - 1)
        /\ len = 0 => p.num = 0

C14_Witness ==
    /\ lastOp = "tick" /\ len = 3 /\ currentIndex = 2
    /\ ProgressPercentage(currentIndex, len).num = 300

\* C15: while Playing each tick moves currentIndex up by exactly 1, so a
\* playback from index 0 that is not interrupted is at index k after k ticks,
\* never beyond len-1, and reaches the last index; there the interval is
\* gone, after at most len-1 advancing ticks.  (Reaching the last index: a
\* playback under way, run >= 0 short of the last index, never lasts forever.)
C15_VisitsEveryIndex ==
    /\ [][Tick => (isPlaying /\ currentIndex' = currentIndex + 1)]_vars
    /\ [](run >= 0 => (currentIndex = run /\ run <= len - 1))
    /\ []((~isLoading /\ len > 0 /\ currentIndex = len - 1) => intervals = 0)
    /\ []<>(run = -1 \/ currentIndex = len - 1)

C15_Witness ==
    /\ lastOp = "tick" /\ len = 3 /\ run = 2 /\ currentIndex = 2
    /\ intervals = 0 /\ intervalRef = "cleared"

\* C16 (as claimed): an interpolation started while an earlier one is in
\* flight and has moved the marker starts from the position the marker
\* displays at that moment, with progress 0.
C16_StartsFromDisplayedPosition ==
    [][(RenderStep /\ lastOp = "frame" /\ loops # <<>>
          /\ Len(loops') = Len(loops) + 1)
           => /\ loops'[Len(loops')].from = markerPos
              /\ loops'[Len(loops')].el = 0]_vars

\* the marker lies on the segment of loop l, ends included
WithinSegment(pos, l) ==
    \A c \in 1..2 :
        /\ Min(l.from[c], l.to[c]) <= pos[c]
        /\ pos[c] <= l.from[c] + l.to[c] - Min(l.from[c], l.to[c])

\* C17: a pending loop has progress below 1 (elapsed < duration); a frame
\* puts the marker at min(1, elapsed/duration) of the way, never beyond the
\* target however late it comes; a loop that reaches progress 1 writes
\* exactly its target to the marker and to prevPositionRef and requests no
\* further frame; and with frames being delivered every loop that was
\* started ends (no handle stays pending forever).
C17_LoopsTerminate ==
    /\ [](\A i \in DOMAIN loops : 0 <= loops[i].el /\ loops[i].el < duration)
    /\ [][Frame =>
            LET last == loops[Len(loops)]
            IN  /\ WithinSegment(markerPos', last)
                /\ loops' = <<>> =>
                     (markerPos' = last.to /\ prevPositionRef' = last.to)
                /\ loops' # <<>> =>
                     LET now == loops'[Len(loops')]
                     IN  /\ now.id = last.id /\ now.el > last.el
                         /\ markerPos' = Interpolate(last.from, last.to, now.el)
                         /\ markerPos' # last.to \/ last.from = last.to
                /\ Len(loops') <= Len(loops)]_vars
    /\ \A k \in 1..MaxLoops :
          []<>(\A i \in DOMAIN loops : loops[i].id # k)

C17_Witness ==
    /\ lastOp = "frame" /\ loops = <<>> /\ currentIndex = 2
    /\ markerPos = routeData[3] /\ prevPositionRef = routeData[3]
    /\ routeData[2] # routeData[3]

\* C18: play() while not playing and short of the last index sets the status
\* to Playing, leaves currentIndex unchanged and registers the interval;
\* pause() short of the last index leaves currentIndex unchanged as well, so
\* playback resumes where it was paused and the next tick moves one further.
C18_PlayResumesInPlace ==
    [][/\ (TogglePlay /\ ~isPlaying /\ currentIndex < len - 1)
           => (isPlaying' /\ currentIndex' = currentIndex /\ intervals' = 1)
       /\ (TogglePlay /\ isPlaying /\ currentIndex < len - 1)
           => (~isPlaying' /\ currentIndex' = currentIndex /\ intervals' = 0)
       /\ (lastOp = "play" /\ Tick) => currentIndex' = currentIndex + 1]_vars

C18_Witness ==
    /\ lastOp = "play" /\ len = 3 /\ currentIndex = 1
    /\ isPlaying /\ intervals = 1 /\ run = -1

\* C19 (as claimed): a render of App that leaves currentIndex unchanged starts
\* no interpolation loop and leaves the loops in flight as they are.
C19_RerenderStartsNoLoop ==
    [][Rerender => loops' = loops]_vars

====
